---- MODULE Spec2Model ----
(***************************************************************************)
(* 8-puzzle solver: the board (src/board.rs), the heuristics               *)
(* (src/heuristics.rs), the min-heap (src/min_heap.rs) and the A* search   *)
(* loop (src/search.rs).                                                   *)
(*                                                                         *)
(* A board is a function  [0..N-1 -> [0..N-1 -> Cell]]  (cells[line][col], *)
(* indexed from 0 as in the source).  Option<T> is a sequence: None is     *)
(* <<>> and Some(x) is <<x>>.  A (a, b) pair is the tuple <<a, b>>.        *)
(***************************************************************************)
EXTENDS Integers, Sequences, FiniteSets, Bags, TLC

\* ------------------------------------------------------------------ bounds

\* Successors whose cost would exceed MaxCost are not queued: the search is
\* explored inside the ball of radius MaxCost around the start board.
MaxCost == 7

\* Longest move list handed to is_valid_plan.
MaxPlanLen == 5

\* Longest chain of apply calls in the board walk.
MaxSteps == 3

\* Most insert and pop calls made on one MinHeap, and the largest f-value
\* inserted.
MaxHeapOps == 5

MaxPriority == 3

\* The heuristics are estimated on the boards within HeurRadius moves of the
\* fixture boards.
HeurRadius == 6

\* ------------------------------------------------------------------ Option

None == <<>>

Some(x) == <<x>>

is_some(o) == o # None

unwrap(o) == o[1]

\* ------------------------------------------------------------------ board.rs

N == 3

EMPTY_CELL == 0

Rows == 0 .. (N - 1)

Coords == Rows \X Rows

\* Board::new: the cells, given as N rows of N cells.
new(cells) == [i \in Rows |-> [j \in Rows |-> cells[i + 1][j + 1]]]

GOAL == new(<< <<1, 2, 3>>, <<4, 5, 6>>, <<7, 8, 0>> >>)

value_at(board, line, column) == board[line][column]

\* Row-major index of a coordinate: the order of the two nested loops.
RowMajor(p) == p[1] * N + p[2]

\* Board::position: the first (x, y), rows outermost, holding the value.
\* (No such cell: the source panics; CHOOSE is then undefined.)
position(board, value) ==
    CHOOSE p \in Coords :
        /\ board[p[1]][p[2]] = value
        /\ \A q \in Coords : board[q[1]][q[2]] = value => RowMajor(p) <= RowMajor(q)

\* new_coordinates with the arms of Up and Down exchanged.
new_coordinates_flipped(x, y, direction) ==
    CASE direction = "Up" /\ x < N - 1 -> Some(<<x + 1, y>>)
      [] direction = "Down" /\ x > 0 -> Some(<<x - 1, y>>)
      [] direction = "Left" /\ y > 0 -> Some(<<x, y - 1>>)
      [] direction = "Right" /\ y < N - 1 -> Some(<<x, y + 1>>)
      [] OTHER -> None

\* The match on the direction, with its guards.
new_coordinates(x, y, direction) ==
    CASE direction = "Up" /\ x > 0 -> Some(<<x - 1, y>>)
      [] direction = "Down" /\ x < N - 1 -> Some(<<x + 1, y>>)
      [] direction = "Left" /\ y > 0 -> Some(<<x, y - 1>>)
      [] direction = "Right" /\ y < N - 1 -> Some(<<x, y + 1>>)
      [] OTHER -> None

\* swap_cells without its first assignment: the tile is overwritten, not moved.
swap_cells_lost_tile(cells, x, y, new_x, new_y) ==
    [cells EXCEPT ![new_x][new_y] = 0]

\* The two assignments into the cloned cells.
swap_cells(cells, x, y, new_x, new_y) ==
    LET moved == [cells EXCEPT ![x][y] = cells[new_x][new_y]]
    IN  [moved EXCEPT ![new_x][new_y] = 0]

\* Board::apply
apply(board, direction) ==
    LET p == position(board, EMPTY_CELL)
        x == p[1]
        y == p[2]
        nc == new_coordinates(x, y, direction)
    IN  IF is_some(nc)
        THEN Some(swap_cells(board, x, y, unwrap(nc)[1], unwrap(nc)[2]))
        ELSE None

\* opposite with the Right arm returning Right.
opposite_typo(direction) ==
    CASE direction = "Up" -> "Down"
      [] direction = "Down" -> "Up"
      [] direction = "Left" -> "Right"
      [] direction = "Right" -> "Right"

\* Direction::opposite
opposite(direction) ==
    CASE direction = "Up" -> "Down"
      [] direction = "Down" -> "Up"
      [] direction = "Left" -> "Right"
      [] direction = "Right" -> "Left"

DIRECTIONS == <<"Up", "Down", "Left", "Right">>

Direction == {DIRECTIONS[i] : i \in DOMAIN DIRECTIONS}

\* plan_board leaving the loop as soon as the board is the goal.
RECURSIVE plan_board_stop_at_goal(_, _)
plan_board_stop_at_goal(board, actions) ==
    IF actions = <<>> \/ board = new(<< <<1, 2, 3>>, <<4, 5, 6>>, <<7, 8, 0>> >>)
    THEN board
    ELSE LET r == apply(board, Head(actions))
         IN  plan_board_stop_at_goal(IF is_some(r) THEN unwrap(r) ELSE board,
                                     Tail(actions))

\* Board::is_valid_plan: the for loop over the actions, then the comparison.
\* A move that cannot be applied prints a message and leaves the board as it is.
RECURSIVE plan_board(_, _)
plan_board(board, actions) ==
    IF actions = <<>>
    THEN board
    ELSE LET r == apply(board, Head(actions))
         IN  plan_board(IF is_some(r) THEN unwrap(r) ELSE board, Tail(actions))

is_valid_plan(board, actions) ==
    LET goal == new(<< <<1, 2, 3>>, <<4, 5, 6>>, <<7, 8, 0>> >>)
    IN  plan_board(board, actions) = goal

INSTANCES == <<
    <<0, new(<< <<1, 2, 3>>, <<4, 5, 6>>, <<7, 8, 0>> >>)>>,
    <<1, new(<< <<1, 2, 3>>, <<4, 5, 6>>, <<7, 0, 8>> >>)>>,
    <<2, new(<< <<1, 2, 3>>, <<4, 5, 6>>, <<0, 7, 8>> >>)>>,
    <<3, new(<< <<1, 2, 3>>, <<4, 8, 5>>, <<7, 0, 6>> >>)>>,
    <<4, new(<< <<1, 5, 2>>, <<4, 0, 3>>, <<7, 8, 6>> >>)>>,
    <<5, new(<< <<4, 1, 3>>, <<0, 2, 6>>, <<7, 5, 8>> >>)>>,
    <<6, new(<< <<4, 1, 3>>, <<7, 2, 6>>, <<0, 5, 8>> >>)>>,
    <<7, new(<< <<5, 1, 3>>, <<0, 2, 6>>, <<4, 7, 8>> >>)>>,
    <<8, new(<< <<5, 4, 2>>, <<1, 0, 3>>, <<7, 8, 6>> >>)>>,
    <<9, new(<< <<8, 1, 3>>, <<0, 2, 5>>, <<4, 7, 6>> >>)>>,
    <<10, new(<< <<8, 1, 3>>, <<4, 2, 5>>, <<0, 7, 6>> >>)>>,
    <<11, new(<< <<8, 1, 3>>, <<4, 2, 5>>, <<7, 0, 6>> >>)>>,
    <<12, new(<< <<8, 4, 2>>, <<1, 0, 3>>, <<7, 6, 5>> >>)>>,
    <<13, new(<< <<8, 4, 3>>, <<0, 1, 5>>, <<2, 7, 6>> >>)>>,
    <<14, new(<< <<8, 7, 3>>, <<2, 0, 5>>, <<1, 4, 6>> >>)>>,
    <<15, new(<< <<8, 7, 3>>, <<2, 5, 0>>, <<1, 4, 6>> >>)>>,
    <<16, new(<< <<8, 7, 3>>, <<4, 1, 5>>, <<0, 2, 6>> >>)>>,
    <<17, new(<< <<8, 7, 3>>, <<4, 1, 5>>, <<2, 0, 6>> >>)>>,
    <<18, new(<< <<8, 7, 5>>, <<3, 0, 2>>, <<1, 4, 6>> >>)>>,
    <<19, new(<< <<8, 7, 5>>, <<3, 4, 2>>, <<1, 0, 6>> >>)>>,
    <<20, new(<< <<8, 7, 6>>, <<2, 0, 3>>, <<1, 4, 5>> >>)>>,
    <<21, new(<< <<8, 7, 6>>, <<2, 4, 3>>, <<1, 0, 5>> >>)>>,
    <<22, new(<< <<8, 7, 6>>, <<4, 1, 2>>, <<0, 5, 3>> >>)>>,
    <<23, new(<< <<8, 7, 6>>, <<4, 1, 2>>, <<5, 0, 3>> >>)>>,
    <<24, new(<< <<8, 7, 6>>, <<5, 3, 1>>, <<0, 2, 4>> >>)>>,
    <<25, new(<< <<8, 7, 6>>, <<5, 4, 2>>, <<1, 0, 3>> >>)>>,
    <<26, new(<< <<8, 7, 6>>, <<5, 4, 2>>, <<1, 3, 0>> >>)>>,
    <<27, new(<< <<8, 7, 6>>, <<5, 4, 1>>, <<3, 0, 2>> >>)>>,
    <<28, new(<< <<8, 7, 6>>, <<5, 4, 3>>, <<0, 2, 1>> >>)>>,
    <<29, new(<< <<8, 7, 6>>, <<5, 4, 3>>, <<2, 0, 1>> >>)>>,
    <<30, new(<< <<8, 7, 6>>, <<5, 4, 3>>, <<2, 1, 0>> >>)>>,
    <<31, new(<< <<8, 6, 7>>, <<2, 5, 4>>, <<3, 0, 1>> >>)>>
>>

\* derive(Ord) on Board compares the cells in row-major order, so the greatest
\* board of a set has the greatest cell 0, among those the greatest cell 1, and
\* so on: the boards of `boards` that are greatest from cell k on.
cell_at(board, k) == board[k \div N][k % N]

RECURSIVE greatest_boards(_, _)
greatest_boards(boards, k) ==
    IF k >= N * N
    THEN boards
    ELSE LET cells == {cell_at(b, k) : b \in boards}
             c == CHOOSE c \in cells : \A d \in cells : d <= c
         IN  greatest_boards({b \in boards : cell_at(b, k) = c}, k + 1)

\* The permutation invariant of a board: each label 0..N*N-1 exactly once.
IsPermutation(board) ==
    \A v \in 0 .. (N * N - 1) :
        Cardinality({p \in Coords : board[p[1]][p[2]] = v}) = 1

\* ------------------------------------------------------------------ heuristics.rs

Heuristic == {"Blind", "Hamming", "Manhattan"}

abs(v) == IF v < 0 THEN -v ELSE v

\* hamming without the test on the empty cell: it is counted like a tile.
hamming_with_blank(board) ==
    Cardinality({p \in (0 .. 2) \X (0 .. 2) :
        value_at(GOAL, p[1], p[2]) # value_at(board, p[1], p[2])})

\* The Hamming arm: the two loops over 0..3, skipping the empty cell.
hamming(board) ==
    Cardinality({p \in (0 .. 2) \X (0 .. 2) :
        /\ value_at(GOAL, p[1], p[2]) # value_at(board, p[1], p[2])
        /\ value_at(board, p[1], p[2]) # 0})

\* manhattan_from with the loop over 1..8: the last tile is left out.
RECURSIVE manhattan_from_short(_, _)
manhattan_from_short(board, i) ==
    IF i >= 8
    THEN 0
    ELSE LET p == position(board, i)
             g == position(GOAL, i)
         IN  abs(g[1] - p[1]) + abs(g[2] - p[2]) + manhattan_from_short(board, i + 1)

\* The Manhattan arm: the loop over the tiles i in 1..9, accumulated from tile i on.
RECURSIVE manhattan_from(_, _)
manhattan_from(board, i) ==
    IF i >= 9
    THEN 0
    ELSE LET p == position(board, i)
             g == position(GOAL, i)
         IN  abs(g[1] - p[1]) + abs(g[2] - p[2]) + manhattan_from(board, i + 1)

\* manhattan with the loop starting at 0: the empty cell is counted as a tile.
manhattan_with_blank(board) == manhattan_from(board, 0)

manhattan(board) == manhattan_from(board, 1)

\* Heuristic::estimate
estimate(heuristic, board) ==
    CASE heuristic = "Blind" -> 0
      [] heuristic = "Hamming" -> hamming(board)
      [] heuristic = "Manhattan" -> manhattan(board)

\* ------------------------------------------------------------------ min_heap.rs

\* struct Node { priority: Reverse<u32>, state }; `priority` holds the f-value.
Node(f_value, state) == [priority |-> f_value, state |-> state]

\* MinHeap::new: the heap is the bag of its nodes.
heap_new == EmptyBag

\* heap_insert keeping one node per (state, f-value): a set, not a bag.
heap_insert_dedup(heap, state, f_value) ==
    IF BagIn(Node(f_value, state), heap)
    THEN heap
    ELSE heap (+) SetToBag({Node(f_value, state)})

\* MinHeap::insert
heap_insert(heap, state, f_value) == heap (+) SetToBag({Node(f_value, state)})

\* MinHeap::is_empty
heap_is_empty(heap) == heap = EmptyBag

\* MinHeap::len
heap_len(heap) == BagCardinality(heap)

\* heap_top with the priority not reversed: the largest f-value comes first.
heap_top_max_f(heap) ==
    LET nodes == BagToSet(heap)
        f_values == {n.priority : n \in nodes}
        f_max == CHOOSE f \in f_values : \A g \in f_values : g <= f
        first == {n.state : n \in {m \in nodes : m.priority = f_max}}
    IN  Node(f_max, CHOOSE b \in greatest_boards(first, 0) : TRUE)

\* BinaryHeap::pop takes the greatest node.  derive(Ord) on Node compares the
\* priority first (Reverse: the smallest f-value is the greatest priority) and
\* then the state.
heap_top(heap) ==
    LET nodes == BagToSet(heap)
        f_values == {n.priority : n \in nodes}
        f_min == CHOOSE f \in f_values : \A g \in f_values : f <= g
        first == {n.state : n \in {m \in nodes : m.priority = f_min}}
    IN  Node(f_min, CHOOSE b \in greatest_boards(first, 0) : TRUE)

\* MinHeap::pop: <<returned Option<State>, heap afterwards>>.
heap_pop(heap) ==
    IF heap_is_empty(heap)
    THEN <<None, heap>>
    ELSE LET node == heap_top(heap)
         IN  <<Some(node.state), heap (-) SetToBag({node})>>

\* ------------------------------------------------------------------ search.rs

\* HashMap::insert
map_insert(map, key, value) ==
    [k \in DOMAIN map \cup {key} |-> IF k = key THEN value ELSE map[k]]

\* HashMap::new
map_new == [k \in {} |-> 0]

\* expand_action with `current_cost <= previous_cost` for found_better_path.
expand_action_leq(st, s, action, heuristic) ==
    LET r == apply(s, action)
    IN  IF ~is_some(r)
        THEN st
        ELSE LET sbis == unwrap(r)
                 current_cost == st.costs[s] + 1
                 found_better_path ==
                     IF sbis \in DOMAIN st.costs
                     THEN current_cost <= st.costs[sbis]
                     ELSE TRUE
             IN  IF found_better_path /\ current_cost <= MaxCost
                 THEN [costs |-> map_insert(st.costs, sbis, current_cost),
                       parent_action |-> map_insert(st.parent_action, sbis, <<s, action>>),
                       heap |-> heap_insert(st.heap, sbis,
                                            current_cost + estimate(heuristic, sbis))]
                 ELSE st

\* expand_action that records the parent of a state only with its first cost.
expand_action_first_parent(st, s, action, heuristic) ==
    LET r == apply(s, action)
    IN  IF ~is_some(r)
        THEN st
        ELSE LET sbis == unwrap(r)
                 current_cost == st.costs[s] + 1
                 found_better_path ==
                     IF sbis \in DOMAIN st.costs
                     THEN current_cost < st.costs[sbis]
                     ELSE TRUE
             IN  IF found_better_path /\ current_cost <= MaxCost
                 THEN [costs |-> map_insert(st.costs, sbis, current_cost),
                       parent_action |->
                           IF sbis \in DOMAIN st.parent_action
                           THEN st.parent_action
                           ELSE map_insert(st.parent_action, sbis, <<s, action>>),
                       heap |-> heap_insert(st.heap, sbis,
                                            current_cost + estimate(heuristic, sbis))]
                 ELSE st

\* The body of `for action in DIRECTIONS` for one action, on the record
\* st = [costs, parent_action, heap].
\* (The test `current_cost <= MaxCost` is the bound of the exploration; the
\* source has no such test.)
expand_action(st, s, action, heuristic) ==
    LET r == apply(s, action)
    IN  IF ~is_some(r)
        THEN st
        ELSE LET sbis == unwrap(r)
                 current_cost == st.costs[s] + 1
                 found_better_path ==
                     IF sbis \in DOMAIN st.costs
                     THEN current_cost < st.costs[sbis]
                     ELSE TRUE
             IN  IF found_better_path /\ current_cost <= MaxCost
                 THEN [costs |-> map_insert(st.costs, sbis, current_cost),
                       parent_action |-> map_insert(st.parent_action, sbis, <<s, action>>),
                       heap |-> heap_insert(st.heap, sbis,
                                            current_cost + estimate(heuristic, sbis))]
                 ELSE st

\* The whole `for action in DIRECTIONS` loop, from action number i on.
RECURSIVE expand_from(_, _, _, _)
expand_from(st, s, i, heuristic) ==
    IF i > Len(DIRECTIONS)
    THEN st
    ELSE expand_from(expand_action(st, s, DIRECTIONS[i], heuristic), s, i + 1, heuristic)

\* walk_parents testing `parent.0 == init_state` before the move is pushed.
RECURSIVE walk_parents_short(_, _, _)
walk_parents_short(w, parents, start) ==
    IF w.s \in DOMAIN parents
    THEN LET parent == parents[w.s]
             next == [s |-> parent[1],
                      path |-> w.path \cup {parent[1]},
                      directions |-> Append(w.directions, parent[2])]
         IN  IF parent[1] = start
             THEN [w EXCEPT !.s = parent[1]]
             ELSE walk_parents_short(next, parents, start)
    ELSE w

\* The `while !find` loop on the record w = [s, path, directions].
RECURSIVE walk_parents(_, _, _)
walk_parents(w, parents, start) ==
    IF w.s \in DOMAIN parents
    THEN LET parent == parents[w.s]
             next == [s |-> parent[1],
                      path |-> w.path \cup {parent[1]},
                      directions |-> Append(w.directions, parent[2])]
         IN  IF parent[1] = start THEN next ELSE walk_parents(next, parents, start)
    ELSE w

\* Vec::reverse
RECURSIVE reverse(_)
reverse(v) == IF v = <<>> THEN <<>> ELSE Append(reverse(Tail(v)), Head(v))

\* Stats::new (the runtime, a wall-clock reading, is left out).
Stats_new(n) == [expanded |-> n]

\* ------------------------------------------------------------------ state

VARIABLES
    \* search(init_state, heuristic): its arguments and locals
    init_state, heuristic, heap, costs, parent_action, expanded, path, directions,
    \* "loop": at the head of the while loop; "done": search has returned
    pc,
    \* the returned pair: Option<Vec<Direction>> and Option of the Stats
    result, stats,
    \* observers of the loop: the state popped by the last iteration (None
    \* before the first), whether it was already expanded, and how often the
    \* goal was popped while not expanded
    popped, popped_closed, goal_pops,
    \* a chain of Board::apply calls: the board before the last call, its
    \* direction, its result, the current board, the result of applying the
    \* opposite direction to it, and the number of calls
    w_prev, w_dir, w_res, w_cur, w_back, w_steps,
    \* one call of Board::is_valid_plan: receiver, argument, Option<bool> returned
    p_board, p_actions, p_result,
    \* a MinHeap<Board> under insert and pop calls: the heap, what the last pop
    \* returned (None: the last call was no pop), the f-value of the node that
    \* pop removed, the f-values removed since the last insert, the numbers of
    \* insert calls and of pop calls that returned an item, and what len() and
    \* is_empty() return after the last call
    h_heap, h_ret, h_f, h_drain, h_inserts, h_pops, h_len, h_empty,
    \* Heuristic::estimate on a board and on its successor by one move: the
    \* board, the move, what apply returned for it, and the estimates of the
    \* three heuristics on the board and on the successor (None: not computed)
    e_board, e_dir, e_next, e_est, e_est_next

search_vars ==
    <<init_state, heuristic, heap, costs, parent_action, expanded, path, directions,
      pc, result, stats, popped, popped_closed, goal_pops>>

walk_vars == <<w_prev, w_dir, w_res, w_cur, w_back, w_steps>>

plan_vars == <<p_board, p_actions, p_result>>

heap_vars == <<h_heap, h_ret, h_f, h_drain, h_inserts, h_pops, h_len, h_empty>>

heur_vars == <<e_board, e_dir, e_next, e_est, e_est_next>>

vars == <<search_vars, walk_vars, plan_vars, heap_vars, heur_vars>>

\* The goal with two tiles exchanged: the goal cannot be reached from it.
UNSOLVABLE == new(<< <<1, 2, 3>>, <<4, 5, 6>>, <<8, 7, 0>> >>)

\* The start boards of the search: the fixture's boards whose known cost is
\* within MaxCost, and a board of the other permutation class.
Starts == {INSTANCES[i][2] : i \in {k \in DOMAIN INSTANCES : INSTANCES[k][1] <= MaxCost}}
              \cup {UNSOLVABLE}

\* search, up to the head of the while loop.
SearchInit ==
    /\ init_state \in Starts
    /\ heuristic \in Heuristic
    /\ heap = heap_insert(heap_new, init_state, 0 + estimate(heuristic, init_state))
    /\ costs = map_insert(map_new, init_state, 0)
    /\ parent_action = map_new
    /\ expanded = {}
    /\ path = {}
    /\ directions = <<>>
    /\ pc = "loop"
    /\ result = None
    /\ stats = None
    /\ popped = None
    /\ popped_closed = FALSE
    /\ goal_pops = 0

\* No search is running.
SearchIdle ==
    /\ init_state = GOAL
    /\ heuristic = "Blind"
    /\ heap = heap_new
    /\ costs = map_new
    /\ parent_action = map_new
    /\ expanded = {}
    /\ path = {}
    /\ directions = <<>>
    /\ pc = "idle"
    /\ result = None
    /\ stats = None
    /\ popped = None
    /\ popped_closed = FALSE
    /\ goal_pops = 0

WalkIdle ==
    /\ w_prev = GOAL
    /\ w_dir = "Up"
    /\ w_res = None
    /\ w_cur = GOAL
    /\ w_back = None
    /\ w_steps = 0

PlanIdle ==
    /\ p_board = GOAL
    /\ p_actions = <<>>
    /\ p_result = None

HeapIdle ==
    /\ h_heap = heap_new
    /\ h_ret = None
    /\ h_f = 0
    /\ h_drain = <<>>
    /\ h_inserts = 0
    /\ h_pops = 0
    /\ h_len = 0
    /\ h_empty = TRUE

HeurIdle ==
    /\ e_board = GOAL
    /\ e_dir = "Up"
    /\ e_next = None
    /\ e_est = None
    /\ e_est_next = None

\* ------------------------------------------------------------------ search loop

\* The statements of one loop body after the `expanded.contains` test, for the
\* popped state s0 and the heap left by the pop: the parent walk when s0 is the
\* goal, the loop over DIRECTIONS on the state s the walk ended on, and
\* expanded.insert(s).
LoopBody(s0, rest) ==
    LET w0 == [s |-> s0, path |-> path, directions |-> directions]
        w == IF s0 = GOAL THEN walk_parents(w0, parent_action, init_state) ELSE w0
        st == expand_from([costs |-> costs, parent_action |-> parent_action,
                           heap |-> rest], w.s, 1, heuristic)
    IN  /\ path' = w.path
        /\ directions' = w.directions
        /\ costs' = st.costs
        /\ parent_action' = st.parent_action
        /\ heap' = st.heap
        /\ expanded' = expanded \cup {w.s}

\* Discard that takes the popped state out of expanded.
Discard_reopen ==
    /\ pc = "loop"
    /\ ~heap_is_empty(heap)
    /\ LET pop == heap_pop(heap)
           s == unwrap(pop[1])
       IN  /\ s \in expanded
           /\ heap' = pop[2]
           /\ expanded' = expanded \ {s}
           /\ popped' = Some(s)
    /\ popped_closed' = TRUE
    /\ UNCHANGED <<init_state, heuristic, costs, parent_action, path,
                   directions, pc, result, stats, goal_pops>>

\* An iteration that pops an already expanded state: `continue`.
Discard ==
    /\ pc = "loop"
    /\ ~heap_is_empty(heap)
    /\ LET pop == heap_pop(heap)
           s == unwrap(pop[1])
       IN  /\ s \in expanded
           /\ heap' = pop[2]
           /\ popped' = Some(s)
    /\ popped_closed' = TRUE
    /\ UNCHANGED <<init_state, heuristic, costs, parent_action, expanded, path,
                   directions, pc, result, stats, goal_pops>>

\* An iteration that pops the goal while it is not expanded.
ExtractGoal ==
    /\ pc = "loop"
    /\ ~heap_is_empty(heap)
    /\ LET pop == heap_pop(heap)
           s == unwrap(pop[1])
       IN  /\ s \notin expanded
           /\ s = GOAL
           /\ LoopBody(s, pop[2])
           /\ popped' = Some(s)
    /\ popped_closed' = FALSE
    /\ goal_pops' = goal_pops + 1
    /\ UNCHANGED <<init_state, heuristic, pc, result, stats>>

\* An iteration that pops any other state that is not expanded.
Expand ==
    /\ pc = "loop"
    /\ ~heap_is_empty(heap)
    /\ LET pop == heap_pop(heap)
           s == unwrap(pop[1])
       IN  /\ s \notin expanded
           /\ s # GOAL
           /\ LoopBody(s, pop[2])
           /\ popped' = Some(s)
    /\ popped_closed' = FALSE
    /\ UNCHANGED <<init_state, heuristic, pc, result, stats, goal_pops>>

\* The heap is empty: the statements after the loop, and the return.
Return ==
    /\ pc = "loop"
    /\ heap_is_empty(heap)
    /\ directions' = reverse(directions)
    /\ stats' = Some(Stats_new(0))
    /\ result' = Some(directions')
    /\ pc' = "done"
    /\ UNCHANGED <<init_state, heuristic, heap, costs, parent_action, expanded, path,
                   popped, popped_closed, goal_pops>>

\* ------------------------------------------------------------------ apply chains

\* The boards a chain of apply calls starts from.
WalkStarts == {INSTANCES[i][2] : i \in DOMAIN INSTANCES} \cup {UNSOLVABLE}

WalkInit ==
    /\ w_cur \in WalkStarts
    /\ w_prev = w_cur
    /\ w_dir = "Up"
    /\ w_res = None
    /\ w_back = None
    /\ w_steps = 0

\* board.apply(direction) on the current board; a returned board becomes the
\* current one.
Move(direction) ==
    /\ w_steps < MaxSteps
    /\ w_prev' = w_cur
    /\ w_dir' = direction
    /\ w_res' = Some(apply(w_cur, direction))
    /\ w_cur' = IF is_some(apply(w_cur, direction))
                THEN unwrap(apply(w_cur, direction))
                ELSE w_cur
    /\ w_back' = None
    /\ w_steps' = w_steps + 1

\* After a move that returned a board t: t.apply(direction.opposite()).
Back ==
    /\ w_res # None
    /\ is_some(unwrap(w_res))
    /\ w_back = None
    /\ w_back' = Some(apply(unwrap(unwrap(w_res)), opposite(w_dir)))
    /\ UNCHANGED <<w_prev, w_dir, w_res, w_cur, w_steps>>

\* ------------------------------------------------------------------ is_valid_plan calls

\* The receivers: the boards of test_plan and of main, the goal, its two
\* neighbours among the fixture, and a board of the other permutation class.
PlanBoards ==
    {INSTANCES[3][2], new(<< <<1, 2, 3>>, <<4, 8, 5>>, <<0, 7, 6>> >>), GOAL,
     INSTANCES[2][2], INSTANCES[5][2], UNSOLVABLE}

\* The move lists of at most MaxPlanLen moves.
Plans == UNION {[1 .. n -> Direction] : n \in 0 .. MaxPlanLen}

PlanInit ==
    /\ p_board \in PlanBoards
    /\ p_actions \in Plans
    /\ p_result = None

\* p_board.is_valid_plan(&p_actions)
CheckPlan ==
    /\ p_result = None
    /\ p_result' = Some(is_valid_plan(p_board, p_actions))
    /\ UNCHANGED <<p_board, p_actions>>

\* ------------------------------------------------------------------ MinHeap calls

\* The states inserted: the goal and a board smaller and a board greater than
\* it in the order of Board.
HeapItems == {GOAL, INSTANCES[2][2], UNSOLVABLE}

\* MinHeap::new()
HeapInit ==
    /\ h_heap = heap_new
    /\ h_ret = None
    /\ h_f = 0
    /\ h_drain = <<>>
    /\ h_inserts = 0
    /\ h_pops = 0
    /\ h_len = heap_len(heap_new)
    /\ h_empty = heap_is_empty(heap_new)

\* heap.insert(state, f_value), then heap.len() and heap.is_empty()
HeapInsert(state, f_value) ==
    /\ h_inserts + h_pops < MaxHeapOps
    /\ h_heap' = heap_insert(h_heap, state, f_value)
    /\ h_ret' = None
    /\ h_drain' = <<>>
    /\ h_inserts' = h_inserts + 1
    /\ h_len' = heap_len(h_heap')
    /\ h_empty' = heap_is_empty(h_heap')
    /\ UNCHANGED <<h_f, h_pops>>

\* heap.pop() on a heap that holds a node, then heap.len() and heap.is_empty()
HeapPop ==
    /\ h_inserts + h_pops < MaxHeapOps
    /\ ~heap_is_empty(h_heap)
    /\ h_heap' = heap_pop(h_heap)[2]
    /\ h_ret' = Some(heap_pop(h_heap)[1])
    /\ h_f' = heap_top(h_heap).priority
    /\ h_drain' = Append(h_drain, heap_top(h_heap).priority)
    /\ h_pops' = h_pops + 1
    /\ h_len' = heap_len(h_heap')
    /\ h_empty' = heap_is_empty(h_heap')
    /\ UNCHANGED h_inserts

\* heap.pop() on an empty heap, then heap.len() and heap.is_empty()
HeapPopEmpty ==
    /\ heap_is_empty(h_heap)
    /\ h_heap' = heap_pop(h_heap)[2]
    /\ h_ret' = Some(heap_pop(h_heap)[1])
    /\ h_len' = heap_len(h_heap')
    /\ h_empty' = heap_is_empty(h_heap')
    /\ UNCHANGED <<h_f, h_drain, h_inserts, h_pops>>

\* ------------------------------------------------------------------ estimate calls

\* The boards within k moves of `boards`.
RECURSIVE within_moves(_, _)
within_moves(boards, k) ==
    IF k = 0
    THEN boards
    ELSE within_moves(
             boards \cup {unwrap(apply(x[1], x[2])) :
                             x \in {y \in boards \X Direction : is_some(apply(y[1], y[2]))}},
             k - 1)

\* The boards the heuristics are estimated on.
HeurBoards == within_moves(WalkStarts, HeurRadius)

HeurInit ==
    /\ e_board \in HeurBoards
    /\ e_dir = "Up"
    /\ e_next = None
    /\ e_est = None
    /\ e_est_next = None

\* h.estimate(&e_board) for each of the three heuristics h
Estimate ==
    /\ e_est = None
    /\ e_est' = Some([h \in Heuristic |-> estimate(h, e_board)])
    /\ UNCHANGED <<e_board, e_dir, e_next, e_est_next>>

\* e_board.apply(direction) returning a board, and h.estimate of that board
\* for each of the three heuristics h
EstimateSuccessor(direction) ==
    /\ e_est # None
    /\ e_next = None
    /\ is_some(apply(e_board, direction))
    /\ e_dir' = direction
    /\ e_next' = apply(e_board, direction)
    /\ e_est_next' = Some([h \in Heuristic |-> estimate(h, unwrap(apply(e_board, direction)))])
    /\ UNCHANGED <<e_board, e_est>>

\* ------------------------------------------------------------------ specifications

Init == SearchInit /\ WalkIdle /\ PlanIdle /\ HeapIdle /\ HeurIdle

Next ==
    \/ Discard /\ UNCHANGED <<walk_vars, plan_vars, heap_vars, heur_vars>>
    \/ ExtractGoal /\ UNCHANGED <<walk_vars, plan_vars, heap_vars, heur_vars>>
    \/ Expand /\ UNCHANGED <<walk_vars, plan_vars, heap_vars, heur_vars>>
    \/ Return /\ UNCHANGED <<walk_vars, plan_vars, heap_vars, heur_vars>>

Spec == Init /\ [][Next]_vars

\* An iteration of `while let Some(s) = heap.pop()`.
Iteration ==
    /\ Discard \/ ExtractGoal \/ Expand
    /\ UNCHANGED <<walk_vars, plan_vars, heap_vars, heur_vars>>

\* search runs to its end once called: while the heap has a node the next
\* iteration is taken, and when it has none the function returns. The first of
\* the two is weak fairness of Iteration with its enabling condition written
\* as the test of the loop, a node left in the heap.
FairSpec ==
    /\ Init
    /\ [][Next]_vars
    /\ WF_vars(Return /\ UNCHANGED <<walk_vars, plan_vars, heap_vars, heur_vars>>)
    /\ \/ []<>~(pc = "loop" /\ ~heap_is_empty(heap))
       \/ []<><<Iteration>>_vars

InitBoard == SearchIdle /\ WalkInit /\ PlanIdle /\ HeapIdle /\ HeurIdle

NextBoard ==
    \/ \E direction \in Direction : Move(direction) /\ UNCHANGED <<search_vars, plan_vars, heap_vars, heur_vars>>
    \/ Back /\ UNCHANGED <<search_vars, plan_vars, heap_vars, heur_vars>>

SpecBoard == InitBoard /\ [][NextBoard]_vars

InitPlan == SearchIdle /\ WalkIdle /\ PlanInit /\ HeapIdle /\ HeurIdle

NextPlan == CheckPlan /\ UNCHANGED <<search_vars, walk_vars, heap_vars, heur_vars>>

SpecPlan == InitPlan /\ [][NextPlan]_vars

InitHeap == SearchIdle /\ WalkIdle /\ PlanIdle /\ HeapInit /\ HeurIdle

NextHeap ==
    \/ \E state \in HeapItems, f_value \in 1 .. MaxPriority :
           HeapInsert(state, f_value) /\ UNCHANGED <<search_vars, walk_vars, plan_vars, heur_vars>>
    \/ HeapPop /\ UNCHANGED <<search_vars, walk_vars, plan_vars, heur_vars>>
    \/ HeapPopEmpty /\ UNCHANGED <<search_vars, walk_vars, plan_vars, heur_vars>>

SpecHeap == InitHeap /\ [][NextHeap]_vars

InitHeur == SearchIdle /\ WalkIdle /\ PlanIdle /\ HeapIdle /\ HeurInit

NextHeur ==
    \/ Estimate /\ UNCHANGED <<search_vars, walk_vars, plan_vars, heap_vars>>
    \/ \E direction \in Direction :
           EstimateSuccessor(direction)
               /\ UNCHANGED <<search_vars, walk_vars, plan_vars, heap_vars>>

SpecHeur == InitHeur /\ [][NextHeur]_vars

\* ------------------------------------------------------------------ properties

\* Every move of `actions` can be applied in order, starting from `board`.
RECURSIVE all_applicable(_, _)
all_applicable(board, actions) ==
    \/ actions = <<>>
    \/ /\ is_some(apply(board, Head(actions)))
       /\ all_applicable(unwrap(apply(board, Head(actions))), Tail(actions))

\* The board reached by applying the moves of `actions`, all applicable, in order.
RECURSIVE replay(_, _)
replay(board, actions) ==
    IF actions = <<>>
    THEN board
    ELSE replay(unwrap(apply(board, Head(actions))), Tail(actions))

\* The fixture entries (expected_cost, board) whose board is `board`.
FixtureOf(board) == {i \in DOMAIN INSTANCES : INSTANCES[i][2] = board}

\* C1: for a fixture pair (expected_cost, board) and each heuristic, search
\* returns Some(path) with exactly expected_cost moves, all applicable in order
\* from board, ending on the goal (fixture pairs of cost at most MaxCost).
C1_SearchOptimalOnFixture ==
    pc = "done" =>
        \A i \in FixtureOf(init_state) :
            INSTANCES[i][1] <= MaxCost =>
                /\ is_some(result)
                /\ Len(unwrap(result)) = INSTANCES[i][1]
                /\ all_applicable(init_state, unwrap(result))
                /\ replay(init_state, unwrap(result)) = GOAL

C1_Witness ==
    /\ pc = "done"
    /\ init_state = INSTANCES[6][2]
    /\ heuristic = "Manhattan"
    /\ is_some(result)
    /\ Len(unwrap(result)) = 5
    /\ replay(init_state, unwrap(result)) = GOAL

\* C2: from a start board of the other permutation class the frontier empties
\* without the goal ever being extracted, and search returns None.
C2_UnreachableReturnsNone ==
    (pc = "done" /\ init_state = UNSOLVABLE /\ goal_pops = 0) => result = None

\* C3: once the goal has been extracted while not expanded, nothing more is
\* popped and the cost map, the parent map and the frontier are left alone.
C3_LoopExitsAfterGoal ==
    [][goal_pops > 0 =>
          /\ popped' = popped
          /\ heap' = heap
          /\ costs' = costs
          /\ parent_action' = parent_action
          /\ expanded' = expanded]_vars

\* C4: with the start board equal to the goal, search returns Some of the
\* empty move list and exactly one state is expanded in the whole run.
C4_StartIsGoal ==
    (pc = "done" /\ init_state = GOAL) =>
        /\ result = Some(<<>>)
        /\ Cardinality(expanded) = 1

\* C5: the `expanded` field of the returned Stats is the number of distinct
\* states added to the expanded set.
C5_StatsCountExpanded ==
    pc = "done" => unwrap(stats).expanded = Cardinality(expanded)

\* C6: a move list with a move that cannot be applied where it is reached is
\* not a valid plan, whatever the other moves are.
C6_InapplicableMoveIsInvalid ==
    (p_result # None /\ ~all_applicable(p_board, p_actions)) => unwrap(p_result) = FALSE

\* C7: for a move list whose moves are all applicable in order, is_valid_plan
\* is true exactly when the board reached after the last move is the goal.
C7_ValidPlanIffEndsInGoal ==
    (p_result # None /\ all_applicable(p_board, p_actions)) =>
        unwrap(p_result) = (replay(p_board, p_actions) = GOAL)

\* A plan that reaches the goal and goes on with one more applicable move.
C7_Witness ==
    /\ p_result = Some(FALSE)
    /\ Len(p_actions) >= 1
    /\ all_applicable(p_board, p_actions)
    /\ replay(p_board, SubSeq(p_actions, 1, Len(p_actions) - 1)) = GOAL

\* C8: when s.apply(d) is Some(t), t.apply(d.opposite()) is Some(s).
C8_MoveReversible ==
    w_back # None => unwrap(w_back) = Some(w_prev)

C8_Witness ==
    /\ w_back # None
    /\ w_dir = "Right"
    /\ w_steps = MaxSteps
    /\ unwrap(w_back) = Some(w_prev)
    /\ w_prev # w_cur

\* C9: every board produced by a chain of successful apply calls from a
\* permutation board holds each label 0..N*N-1 exactly once.
C9_PermutationPreserved ==
    /\ IsPermutation(w_cur)
    /\ w_res # None /\ is_some(unwrap(w_res)) => IsPermutation(unwrap(unwrap(w_res)))

C9_Witness ==
    /\ w_steps = MaxSteps
    /\ w_res # None
    /\ is_some(unwrap(w_res))
    /\ unwrap(unwrap(w_res)) = w_cur
    /\ w_cur # w_prev
    /\ IsPermutation(w_cur)

\* The cell one step from (x, y) in a direction.
Neighbour(x, y, direction) ==
    CASE direction = "Up" -> <<x - 1, y>>
      [] direction = "Down" -> <<x + 1, y>>
      [] direction = "Left" -> <<x, y - 1>>
      [] direction = "Right" -> <<x, y + 1>>

\* C10: with the empty cell at (x, y), apply(d) is None exactly when the
\* neighbour of (x, y) in direction d is outside the grid; otherwise the result
\* has the empty cell on the neighbour, the neighbour's tile at (x, y) and every
\* other cell as before.
C10_ApplyMovesEmptyCell ==
    w_res # None =>
        LET e == CHOOSE p \in Coords : w_prev[p[1]][p[2]] = EMPTY_CELL
            n == Neighbour(e[1], e[2], w_dir)
            r == unwrap(w_res)
        IN  /\ (r = None) <=> (n \notin Coords)
            /\ r # None =>
                 /\ unwrap(r)[n[1]][n[2]] = EMPTY_CELL
                 /\ unwrap(r)[e[1]][e[2]] = w_prev[n[1]][n[2]]
                 /\ \A q \in Coords \ {e, n} : unwrap(r)[q[1]][q[2]] = w_prev[q[1]][q[2]]

C10_Witness ==
    /\ w_res # None
    /\ unwrap(w_res) # None
    /\ w_dir = "Up"
    /\ w_cur # w_prev

\* C11: pop on a heap that holds a node returns an item whose f-value is at
\* most the f-value of every node still in the heap, so the f-values popped
\* in a row, with no insert in between, come in non-decreasing order.
C11_PopReturnsSmallest ==
    (h_ret # None /\ is_some(unwrap(h_ret))) =>
        /\ \A n \in BagToSet(h_heap) : h_f <= n.priority
        /\ \A i \in 1 .. (Len(h_drain) - 1) : h_drain[i] <= h_drain[i + 1]

\* Three items of three f-values, inserted largest first, popped in a row.
C11_Witness ==
    /\ h_ret # None
    /\ is_some(unwrap(h_ret))
    /\ Len(h_drain) = 2
    /\ h_drain[1] < h_drain[2]
    /\ heap_len(h_heap) = 1
    /\ \A n \in BagToSet(h_heap) : h_f < n.priority

\* C12: len() is the number of insert calls minus the number of pop calls
\* that returned an item, an item inserted again counting again; is_empty()
\* holds exactly when len() is 0; pop on an empty heap returns None and leaves
\* the heap empty.
C12_LenCountsEntries ==
    /\ h_len = h_inserts - h_pops
    /\ h_empty <=> (h_len = 0)
    /\ (h_ret # None /\ unwrap(h_ret) = None) => (h_len = 0 /\ h_heap = heap_new)
    /\ (h_ret # None /\ is_some(unwrap(h_ret))) => h_len = heap_len(h_heap)

\* The same item inserted twice with the same f-value, then popped once.
C12_Witness ==
    /\ h_inserts = 2
    /\ h_pops = 1
    /\ h_len = 1
    /\ h_ret # None
    /\ is_some(unwrap(h_ret))
    /\ \A n \in BagToSet(h_heap) : n.state = unwrap(unwrap(h_ret)) /\ n.priority = h_f

\* C13: on every fixture pair (k, s), Manhattan and Hamming estimate at most
\* k and Blind estimates 0.
C13_AdmissibleOnFixture ==
    e_est # None =>
        \A i \in FixtureOf(e_board) :
            /\ unwrap(e_est)["Manhattan"] <= INSTANCES[i][1]
            /\ unwrap(e_est)["Hamming"] <= INSTANCES[i][1]
            /\ unwrap(e_est)["Blind"] = 0

\* The fixture board one move from the goal: both estimates are exactly 1.
C13_Witness ==
    /\ e_est # None
    /\ e_board = INSTANCES[2][2]
    /\ unwrap(e_est)["Manhattan"] = 1
    /\ unwrap(e_est)["Hamming"] = 1
    /\ unwrap(e_est)["Blind"] = 0

\* C14: on every permutation board Manhattan estimates at least what Hamming
\* does; Hamming is the number of tiles 1..8 that are not on their goal cell.
C14_ManhattanDominatesHamming ==
    (e_est # None /\ IsPermutation(e_board)) =>
        /\ unwrap(e_est)["Manhattan"] >= unwrap(e_est)["Hamming"]
        /\ unwrap(e_est)["Hamming"] =
               Cardinality({v \in 1 .. (N * N - 1) :
                   \E p \in Coords : e_board[p[1]][p[2]] = v /\ GOAL[p[1]][p[2]] # v})

\* The board of test_heuristic: Hamming 7, Manhattan 14.
C14_Witness ==
    /\ e_est # None
    /\ e_board = new(<< <<8, 7, 3>>, <<2, 0, 5>>, <<1, 4, 6>> >>)
    /\ unwrap(e_est)["Hamming"] = 7
    /\ unwrap(e_est)["Manhattan"] = 14

\* C19: one applicable move changes Manhattan by exactly 1 and Hamming by at
\* most 1, the three heuristics are 0 on the goal, and so each heuristic h
\* has h(s) <= 1 + h(successor).
C19_HeuristicsConsistent ==
    /\ (e_est # None /\ e_board = GOAL) => \A h \in Heuristic : unwrap(e_est)[h] = 0
    /\ e_est_next # None =>
         /\ abs(unwrap(e_est_next)["Manhattan"] - unwrap(e_est)["Manhattan"]) = 1
         /\ abs(unwrap(e_est_next)["Hamming"] - unwrap(e_est)["Hamming"]) <= 1
         /\ \A h \in Heuristic : unwrap(e_est)[h] <= 1 + unwrap(e_est_next)[h]

\* A move that puts a tile on its goal cell: both estimates go down by 1.
C19_Witness ==
    /\ e_est_next # None
    /\ unwrap(e_est_next)["Manhattan"] = unwrap(e_est)["Manhattan"] - 1
    /\ unwrap(e_est_next)["Hamming"] = unwrap(e_est)["Hamming"] - 1
    /\ unwrap(e_next) # GOAL

\* The boards one applicable move from a board of `boards`.
successors(boards) ==
    {unwrap(apply(x[1], x[2])) :
        x \in {y \in boards \X Direction : is_some(apply(y[1], y[2]))}}

\* The least number of moves from a board of `layer` to `target`, plus k, by
\* breadth-first layers (`seen`: the boards of the layers so far).
RECURSIVE shortest_from(_, _, _, _)
shortest_from(layer, seen, target, k) ==
    IF target \in layer
    THEN k
    ELSE LET next == successors(layer) \ seen
         IN  shortest_from(next, seen \cup next, target, k + 1)

\* The least number of moves from the start board to `target`.
Distance(target) == shortest_from({init_state}, {init_state}, target, 0)

\* The states extracted so far while not expanded.
Extracted == expanded \cup (IF goal_pops > 0 THEN {GOAL} ELSE {})

\* C15: in the step that extracts a state while it is not expanded, the cost
\* recorded for it is the least number of moves from the start board to it,
\* and no step lowers the recorded cost of a state extracted before.
C15_ExtractedCostIsShortest ==
    [][/\ (popped' # None /\ ~popped_closed') =>
             costs[unwrap(popped')] = Distance(unwrap(popped'))
       /\ \A s \in Extracted : s \in DOMAIN costs' /\ costs'[s] >= costs[s]]_vars

\* C16: a state popped while not expanded is in the expanded set when the
\* iteration that popped it has ended, the goal included.
C16_PoppedStateIsClosed ==
    (popped # None /\ ~popped_closed) => unwrap(popped) \in expanded

\* C17: a step that pops an entry whose state is expanded removes that entry
\* from the heap and changes nothing else: costs, parent_action, expanded, path
\* and directions are as before and no entry is added to the heap.
C17_StalePopOnlyShrinksFrontier ==
    [][(pc = "loop" /\ ~heap_is_empty(heap) /\ heap_top(heap).state \in expanded) =>
          /\ heap' = heap (-) SetToBag({heap_top(heap)})
          /\ BagCardinality(heap') = BagCardinality(heap) - 1
          /\ costs' = costs
          /\ parent_action' = parent_action
          /\ expanded' = expanded
          /\ path' = path
          /\ directions' = directions]_vars

\* An entry of an expanded state has been popped.
C17_Witness ==
    /\ popped # None
    /\ popped_closed
    /\ unwrap(popped) \in expanded
    /\ costs[unwrap(popped)] < MaxCost

\* The number of parent links from t to the start board, or -1 when the start
\* board is not reached within `fuel` links.
RECURSIVE links_to_start(_, _)
links_to_start(t, fuel) ==
    IF t = init_state
    THEN 0
    ELSE IF fuel = 0 \/ t \notin DOMAIN parent_action
         THEN -1
         ELSE LET below == links_to_start(parent_action[t][1], fuel - 1)
              IN  IF below < 0 THEN -1 ELSE below + 1

\* The parent map agrees with the cost map.
ParentsAgreeWithCosts ==
    /\ init_state \in DOMAIN costs
    /\ costs[init_state] = 0
    /\ init_state \notin DOMAIN parent_action
    /\ \A t \in DOMAIN parent_action :
          LET p == parent_action[t][1]
              d == parent_action[t][2]
          IN  /\ apply(p, d) = Some(t)
              /\ t \in DOMAIN costs
              /\ p \in DOMAIN costs
              /\ costs[t] = costs[p] + 1
              /\ links_to_start(t, costs[t]) = costs[t]

\* The states whose parent entry or cost is written by the step.
Written ==
    {t \in DOMAIN parent_action' :
        \/ t \notin DOMAIN parent_action
        \/ parent_action'[t] # parent_action[t]
        \/ t \notin DOMAIN costs
        \/ costs'[t] # costs[t]}

\* C18: at every step the parent map is a tree rooted at the start board that
\* agrees with the costs (the start has cost 0 and no parent; a state t with
\* parent (p, d) has p.apply(d) = Some(t), costs[t] = costs[p] + 1 and is
\* costs[t] links from the start), and a step writes an entry for t only when t
\* had no cost or gets a strictly lower one, adding the node
\* (t, costs'[t] + h(t)) to the heap.
C18_ParentTreeAgreesWithCosts ==
    /\ []ParentsAgreeWithCosts
    /\ [][\A t \in Written :
             /\ t \in DOMAIN costs => costs'[t] < costs[t]
             /\ costs'[t] = costs'[parent_action'[t][1]] + 1
             /\ LET node == Node(costs'[t] + estimate(heuristic, t), t)
                IN  CopiesIn(node, heap') = CopiesIn(node, heap) + 1]_vars

\* The parent entry of a state has been written a second time, with a lower
\* cost.
C18_Witness ==
    /\ ParentsAgreeWithCosts
    /\ \E t \in DOMAIN parent_action :
          \E n \in BagToSet(heap) :
             /\ n.state = t
             /\ n.priority > costs[t] + estimate(heuristic, t)

\* A step of the loop brings the search nearer to its end: it leaves the loop,
\* or it leaves the costs as they are and shrinks the heap, or it records a
\* first or strictly lower cost (a natural number) for some state and raises
\* none.
LoopStepDecreases ==
    \/ pc' = "done"
    \/ /\ costs' = costs
       /\ BagCardinality(heap') < BagCardinality(heap)
    \/ /\ costs' # costs
       /\ DOMAIN costs \subseteq DOMAIN costs'
       /\ \A t \in DOMAIN costs : costs'[t] <= costs[t]
       /\ \A t \in DOMAIN costs' : costs'[t] \in Nat

\* C20: from every start board, reachable from the goal or not, and with each
\* of the three heuristics the while loop of search comes to its end, and each
\* of its steps shrinks the heap or strictly lowers a recorded cost.
C20_SearchTerminates ==
    /\ <>(pc = "done")
    /\ [][pc = "loop" => LoopStepDecreases]_vars

\* The loop has ended on a board the goal cannot be reached from, and on a
\* start that had an entry discarded.
C20_Witness ==
    /\ pc = "done"
    /\ heap_is_empty(heap)
    /\ \/ init_state = UNSOLVABLE /\ heuristic = "Hamming"
       \/ popped_closed /\ heuristic = "Manhattan"

\* The number of nodes of the heap whose state is the goal.
GoalEntries(h) ==
    LET goal_nodes == {n \in BagToSet(h) : n.state = GOAL}
    IN  IF goal_nodes = {}
        THEN 0
        ELSE BagCardinality([n \in goal_nodes |-> CopiesIn(n, h)])

\* C21: in a run of search the goal is extracted while not expanded at most
\* once, so the returned moves are one walk from the goal back to the start,
\* reversed (as many moves as the cost recorded for the goal, leading from the
\* start to the goal); and once the goal has a cost no step adds a node of the
\* goal to the heap or changes that cost.
C21_GoalExtractedAtMostOnce ==
    /\ [](goal_pops <= 1)
    /\ []((pc = "done" /\ goal_pops = 1) =>
            /\ is_some(result)
            /\ Len(unwrap(result)) = costs[GOAL]
            /\ all_applicable(init_state, unwrap(result))
            /\ replay(init_state, unwrap(result)) = GOAL)
    /\ [][(GOAL \in DOMAIN costs) =>
            /\ GOAL \in DOMAIN costs'
            /\ costs'[GOAL] = costs[GOAL]
            /\ GoalEntries(heap') <= GoalEntries(heap)]_vars

\* The search has gone on after the one extraction of the goal, popped other
\* states, and returned.
C21_Witness ==
    /\ pc = "done"
    /\ goal_pops = 1
    /\ popped # Some(GOAL)
    /\ GOAL \notin expanded
    /\ init_state # GOAL
    /\ Len(unwrap(result)) = costs[GOAL]
    /\ Cardinality(expanded) > costs[GOAL] + 1

====
